---- MODULE Spec2Model ----
(***************************************************************************)
(* MetricsCapture (google/cloud/spanner_v1/metrics/metrics_capture.py):    *)
(* the context manager that creates a metrics tracer on __enter__,        *)
(* installs it in the ambient (context-variable) slot of the calling      *)
(* logical thread, and on __exit__ records completion on the ambient      *)
(* tracer and resets the slot with the token kept in self._token.         *)
(*                                                                         *)
(* The collaborators SpannerMetricsTracerFactory (enabled flag, tracer    *)
(* factory, get/set/reset of the context variable) and the tracer's two   *)
(* recording calls are not part of the source tree; they are modelled     *)
(* from the specification's Tracer Registry section, with the token       *)
(* being a contextvars.Token (metrics_capture.py line 23): it restores    *)
(* the value the slot had before the set and can be used once.            *)
(*                                                                         *)
(* Environment: with-blocks are well nested per logical thread, and a     *)
(* MetricsCapture object is entered only while it is not active (it may   *)
(* be entered again after it has exited).  Each logical thread uses its   *)
(* own capture objects.  The recording calls of a tracer return normally, *)
(* except under SpecCompletionRaises.                                      *)
(*                                                                         *)
(* agent.py: the tool function update_transfer_details of the             *)
(* SendMoneyAgent and the session state its docstring speaks of           *)
(* (SpecAgent).                                                            *)
(***************************************************************************)
EXTENDS Integers, Sequences, FiniteSets

\* ---------------------------------------------------------------- bounds
\* with-blocks open at once on one thread, and with-blocks entered in a run
MaxDepth == 2
MaxCaptures == 3

\* Thread A has two MetricsCapture objects, thread B one.
Threads == {"A", "B"}
Captures ==
    {[th |-> "A", id |-> "c1"], [th |-> "A", id |-> "c2"], [th |-> "B", id |-> "c1"]}

\* Outcomes of the wrapped unit of work, as handed to __exit__.
Outcomes == {"ok", "E", "cancelled"}

\* ------------------------------------------------------- values and types
None == [th |-> "none", n |-> 0]
Tracers == [th : Threads, n : 1..MaxCaptures]
NoToken == [th |-> "none", n |-> 0, old |-> None]

VARIABLES
    enabled,    \* SpannerMetricsTracerFactory().enabled, process wide
    slot,       \* the context variable: slot[t] is thread t's ambient tracer
    stack,      \* stack[t]: the with-blocks active on thread t, innermost last
    selfToken,  \* selfToken[c]: the _token attribute of capture object c
    used,       \* the tokens a reset has consumed
    nEnter,     \* __enter__ calls so far; numbers the tracers and tokens
    started,    \* started[T]: record_operation_start calls received by T
    completed,  \* completed[T]: record_operation_completion calls received by T
    last,       \* what the most recent __enter__ / __exit__ call did
    session,    \* agent.py: the transfer details held in the session state
    supplied,   \* per field, the value of the latest tool call that gave one
    reply       \* the return value of the latest update_transfer_details call

captureVars ==
    <<enabled, slot, stack, selfToken, used, nEnter, started, completed, last>>
agentVars == <<session, supplied, reply>>
vars == <<enabled, slot, stack, selfToken, used, nEnter, started, completed, last,
          session, supplied, reply>>

\* ------------------------------------------------- the registry (spec 4.1)
get_current_tracer(s, t) == s[t]

set_current_tracer_global(s, t, tracer) == [u \in DOMAIN s |-> tracer]
set_current_tracer(s, t, tracer) == [s EXCEPT ![t] = tracer]

\* The token set_current_tracer returns: it captures the prior ambient value.
set_token(s, t, n) == [th |-> t, n |-> n, old |-> s[t]]

\* ContextVar.reset refuses a token that was used before.
reset_refused(tok, usedTokens) == tok \in usedTokens

reset_current_tracer(s, t, tok) == [s EXCEPT ![t] = tok.old]

\* factory.create_metrics_tracer(): a fresh tracer, or none.
create_metrics_tracer(t, n, yields) == IF yields THEN [th |-> t, n |-> n] ELSE None

\* ------------------------------------------------------------- agent.py
\* The four parameters of update_transfer_details; each defaults to None.
Fields == {"amount", "country", "beneficiary", "method"}
Values == {"100", "200"}
Absent == "None"
Args == [Fields -> Values \cup {Absent}]

\* line 15: the whole body is the return of the formatted string
\* "RECORDED: amount=..., country=..., beneficiary=..., method=...".
update_transfer_details(a) ==
    <<"RECORDED", a["amount"], a["country"], a["beneficiary"], a["method"]>>

\* lines 5-15: the function has no session or tool context and writes
\* nothing; the session state after a call is the one before it.
session_after(sess, a) == sess

\* ------------------------------------------- MetricsCapture.__enter__ parts
\* line 49: if not factory.enabled: return self
enter_always(en) == FALSE
enter_short_circuit(en) == ~en

\* line 55: the set is unconditional (also for a tracer that is none)
enter_installs_if_present(tracer) == tracer # None
enter_installs(tracer) == TRUE

\* lines 56-57: if tracer: tracer.record_operation_start()
enter_records_start(tracer) == tracer # None

\* -------------------------------------------- MetricsCapture.__exit__ parts
\* line 75: if not SpannerMetricsTracerFactory().enabled: return False
exit_always(en) == FALSE
exit_short_circuit(en) == ~en

\* lines 60-85: exc_type, exc_value and traceback are never read, so the
\* bookkeeping is the same for a normal end, a failure and a cancellation
exit_handles_failures_only(exc) == exc # "cancelled"
exit_handles(exc) == TRUE

\* lines 78-80: completion goes to the ambient tracer, whoever created it
exit_records_completion(cur) == cur # None

\* lines 78-84: the completion call is the statement before the reset
exit_resets_before_completion == FALSE
exit_completes_before_reset == TRUE

\* line 83: if getattr(self, "_token", None)
exit_never_resets(tok) == FALSE
exit_resets(tok) == tok # NoToken

\* lines 76, 85: return False
exit_suppresses == TRUE
exit_returns == FALSE

\* What the caller of the with-block observes: an exception raised by
\* __exit__ replaces the outcome; a true return value swallows a failure.
Observed(exc, raised, returned) ==
    IF raised # "none" THEN raised
    ELSE IF returned /\ exc # "ok" THEN "ok"
    ELSE exc

\* ------------------------------------------------------------------- helpers
Active(t) == {stack[t][i].obj : i \in 1..Len(stack[t])}

Frame(c, en, tracer, tok, pre) ==
    [obj |-> c, en |-> en, tracer |-> tracer, tok |-> tok, pre |-> pre]

NoFrame == Frame([th |-> "none", id |-> "none"], FALSE, None, NoToken, None)

Inc(f, x) == [f EXCEPT ![x] = @ + 1]

NoCall ==
    [op |-> "init", th |-> "none", en |-> FALSE, frame |-> NoFrame,
     before |-> None, created |-> None, setTo |-> <<>>, newTok |-> NoToken,
     startedOn |-> None, got |-> <<>>, completedOn |-> None,
     atCompletion |-> None, resetTok |-> NoToken, staleReset |-> FALSE,
     heldBefore |-> NoToken,
     raised |-> "none", returned |-> FALSE, exc |-> "ok", observed |-> "ok"]

\* ---------------------------------------------------------------------- Init
InitCommon ==
    /\ slot = [t \in Threads |-> None]
    /\ stack = [t \in Threads |-> <<>>]
    /\ selfToken = [c \in Captures |-> NoToken]
    /\ used = {}
    /\ nEnter = 0
    /\ started = [T \in Tracers |-> 0]
    /\ completed = [T \in Tracers |-> 0]
    /\ last = NoCall
    /\ session = [f \in Fields |-> Absent]
    /\ supplied = [f \in Fields |-> Absent]
    /\ reply = <<>>

Init == enabled \in BOOLEAN /\ InitCommon

InitEnabled == enabled = TRUE /\ InitCommon

\* ------------------------------------------------------------------- actions
\* The process-wide flag is mutable configuration.
SetEnabled(b) ==
    /\ enabled # b
    /\ enabled' = b
    /\ UNCHANGED <<slot, stack, selfToken, used, nEnter, started, completed, last>>

\* with capture: ... entered on thread t with capture object c; yields says
\* whether create_metrics_tracer returns a tracer.
Enter(t, c, yields) ==
    /\ c.th = t
    /\ c \notin Active(t)
    /\ Len(stack[t]) < MaxDepth
    /\ nEnter < MaxCaptures
    /\ nEnter' = nEnter + 1
    /\ LET en == enabled
           before == get_current_tracer(slot, t)
       IN  IF enter_short_circuit(en)
           THEN /\ stack' = [stack EXCEPT ![t] =
                        Append(@, Frame(c, en, None, NoToken, before))]
                /\ last' = [NoCall EXCEPT !.op = "enter", !.th = t, !.en = en,
                        !.frame = Frame(c, en, None, NoToken, before),
                        !.before = before, !.heldBefore = selfToken[c]]
                /\ UNCHANGED <<enabled, slot, selfToken, used,
                               started, completed>>
           ELSE /\ LET tracer == create_metrics_tracer(t, nEnter + 1, yields)
                       inst == enter_installs(tracer)
                       tok == IF inst THEN set_token(slot, t, nEnter + 1) ELSE NoToken
                       rec == enter_records_start(tracer)
                   IN  /\ slot' = IF inst THEN set_current_tracer(slot, t, tracer)
                                  ELSE slot
                       /\ selfToken' = IF inst THEN [selfToken EXCEPT ![c] = tok]
                                       ELSE selfToken
                       /\ started' = IF rec THEN Inc(started, tracer) ELSE started
                       /\ stack' = [stack EXCEPT ![t] =
                               Append(@, Frame(c, en, tracer, tok, before))]
                       /\ last' = [NoCall EXCEPT !.op = "enter", !.th = t,
                               !.en = en,
                               !.frame = Frame(c, en, tracer, tok, before),
                               !.before = before, !.created = tracer,
                               !.setTo = IF inst THEN <<tracer>> ELSE <<>>,
                               !.newTok = tok,
                               !.startedOn = IF rec THEN tracer ELSE None,
                               !.heldBefore = selfToken[c]]
                       /\ UNCHANGED <<enabled, used, completed>>

\* The innermost with-block of thread t ends with outcome exc; fails says
\* whether record_operation_completion raises.
Exit(t, exc, fails) ==
    /\ Len(stack[t]) > 0
    /\ LET f == stack[t][Len(stack[t])]
           c == f.obj
           en == enabled
           before == slot[t]
           base == [NoCall EXCEPT !.op = "exit", !.th = t, !.en = en,
                       !.frame = f, !.before = before, !.exc = exc,
                       !.heldBefore = selfToken[c]]
       IN  /\ stack' = [stack EXCEPT ![t] = SubSeq(@, 1, Len(@) - 1)]
           /\ UNCHANGED <<enabled, selfToken, nEnter, started>>
           /\ IF exit_short_circuit(en) \/ ~exit_handles(exc)
              THEN /\ last' = [base EXCEPT !.returned = exit_returns,
                          !.observed = Observed(exc, "none", exit_returns)]
                   /\ UNCHANGED <<slot, used, completed>>
              ELSE LET cur == get_current_tracer(slot, t)
                       rec == exit_records_completion(cur)
                       tok == selfToken[c]
                       boom == rec /\ fails
                       doReset == ~boom /\ exit_resets(tok)
                       stale == doReset /\ reset_refused(tok, used)
                       raised == IF boom THEN "CompletionError"
                                 ELSE IF stale THEN "RuntimeError"
                                 ELSE "none"
                       ret == IF raised = "none" THEN exit_returns ELSE FALSE
                       afterReset == IF doReset /\ ~stale
                                     THEN reset_current_tracer(slot, t, tok)
                                     ELSE slot
                       seen == IF exit_completes_before_reset THEN before
                               ELSE afterReset[t]
                   IN  /\ fails => rec
                       /\ completed' = IF rec THEN Inc(completed, cur) ELSE completed
                       /\ slot' = afterReset
                       /\ used' = IF doReset /\ ~stale THEN used \cup {tok} ELSE used
                       /\ last' = [base EXCEPT !.got = <<cur>>,
                               !.completedOn = IF rec THEN cur ELSE None,
                               !.atCompletion = IF rec THEN seen ELSE None,
                               !.resetTok = IF doReset THEN tok ELSE NoToken,
                               !.staleReset = stale,
                               !.raised = raised,
                               !.returned = ret,
                               !.observed = Observed(exc, raised, ret)]

\* The agent calls its tool with the arguments a.
UpdateTransferDetails(a) ==
    /\ reply' = update_transfer_details(a)
    /\ session' = session_after(session, a)
    /\ supplied' = [f \in Fields |-> IF a[f] # Absent THEN a[f] ELSE supplied[f]]
    /\ UNCHANGED captureVars

EnterStep(T) ==
    /\ \E t \in T, c \in Captures, y \in BOOLEAN : Enter(t, c, y)
    /\ UNCHANGED agentVars
ExitStep(T) ==
    /\ \E t \in T, e \in Outcomes : Exit(t, e, FALSE)
    /\ UNCHANGED agentVars
ExitCompletionRaises(T) ==
    /\ \E t \in T, e \in Outcomes : Exit(t, e, TRUE)
    /\ UNCHANGED agentVars
Toggle ==
    /\ \E b \in BOOLEAN : SetEnabled(b)
    /\ UNCHANGED agentVars
UpdateStep == \E a \in Args : UpdateTransferDetails(a)

\* Two logical threads running captures while the flag may change.
Next == EnterStep(Threads) \/ ExitStep(Threads) \/ Toggle
Spec == Init /\ [][Next]_vars

\* agent.py alone: the agent calls its tool any number of times.
SpecAgent == InitEnabled /\ [][UpdateStep]_vars

\* One logical thread running captures while the flag may change.
NextSolo == EnterStep({"A"}) \/ ExitStep({"A"}) \/ Toggle
SpecSolo == Init /\ [][NextSolo]_vars

\* The flag is set once, to true, and never changes.
NextEnabled == EnterStep(Threads) \/ ExitStep(Threads)
SpecEnabled == InitEnabled /\ [][NextEnabled]_vars

\* As SpecEnabled; the wrapped work of every with-block ends, and the with
\* statement then calls __exit__.
SpecEnabledFair ==
    SpecEnabled /\ \A t \in Threads : WF_vars(ExitStep({t}))

\* As SpecEnabled on one thread, with a tracer whose
\* record_operation_completion may raise.
NextCompletionRaises ==
    EnterStep({"A"}) \/ ExitStep({"A"}) \/ ExitCompletionRaises({"A"})
SpecCompletionRaises == InitEnabled /\ [][NextCompletionRaises]_vars

\* ------------------------------------------------------------ claim helpers
Top(t) == stack[t][Len(stack[t])]

\* The tracer of the capture enclosing the one that just exited on thread t.
EnclosingTracer(t) == IF stack[t] = <<>> THEN None ELSE Top(t).tracer

\* C1. Ambient restoration under nesting (flag true throughout): right
\* after a capture exits, the thread's ambient tracer is the tracer of the
\* capture that encloses it, and none when the exited capture was outermost.
AmbientRestoration ==
    last.op = "exit" => slot[last.th] = EnclosingTracer(last.th)

\* An inner capture with its own tracer has exited and the outer capture's
\* tracer is ambient again.
AmbientRestorationWitness ==
    /\ last.op = "exit"
    /\ last.frame.tracer # None
    /\ stack[last.th] # <<>>
    /\ Top(last.th).tracer # None
    /\ slot[last.th] = Top(last.th).tracer
    /\ slot[last.th] # last.frame.tracer

\* The tracers created by captures that are still active on thread t.
ActiveTracers(t) == {stack[t][i].tracer : i \in 1..Len(stack[t])} \ {None}

\* C2. Start/completion pairing: a tracer gets one start, at its creation,
\* and one completion, after the start; once the capture that created it has
\* exited it has received exactly one completion, and never a second one.
StartCompletionPairing ==
    \A T \in Tracers :
        /\ started[T] <= 1
        /\ completed[T] <= started[T]
        /\ T \in ActiveTracers(T.th) => started[T] = 1
        /\ (started[T] = 1 /\ T \notin ActiveTracers(T.th)) => completed[T] = 1

\* C3. Failure transparency (flag true throughout): when the wrapped work
\* fails with E, __exit__ records completion on the capture's tracer, puts
\* the slot back to its value before the entry, returns False, and the
\* caller observes E; __exit__ returns False on every path.
FailureTransparency ==
    /\ last.op = "exit" => last.returned = FALSE
    /\ (last.op = "exit" /\ last.exc = "E") =>
         /\ last.frame.tracer # None =>
              /\ last.completedOn = last.frame.tracer
              /\ completed[last.frame.tracer] = 1
         /\ slot[last.th] = last.frame.pre
         /\ last.raised = "none"
         /\ last.observed = "E"

\* A capture holding a tracer, nested in another capture, has exited after
\* its work failed with E.
FailureTransparencyWitness ==
    /\ last.op = "exit"
    /\ last.exc = "E"
    /\ last.frame.tracer # None
    /\ last.frame.pre # None
    /\ completed[last.frame.tracer] = 1
    /\ slot[last.th] = last.frame.pre
    /\ last.observed = "E"

\* C4. Restoration takes priority over completion recording: an exit that
\* reads the flag as true, of a capture whose entry retained a token, resets
\* with that token and leaves the slot at its pre-entry value, also when
\* record_operation_completion raises.
RestorationPriority ==
    (last.op = "exit" /\ last.en /\ last.frame.tok # NoToken) =>
        /\ last.resetTok = last.frame.tok
        /\ slot[last.th] = last.frame.pre

\* C5. No-op when disabled: an entry that reads the flag as false creates no
\* tracer and no token, and neither it nor the exit of such a capture that
\* reads the flag as false changes the slot, a _token attribute, the consumed
\* tokens or any tracer's start and completion counts.
DisabledEntry(t) ==
    ~enabled /\ Len(stack'[t]) = Len(stack[t]) + 1

DisabledExit(t) ==
    ~enabled /\ Len(stack'[t]) = Len(stack[t]) - 1 /\ ~Top(t).en

NoOpWhenDisabled ==
    [][\A t \in Threads :
          /\ DisabledEntry(t) =>
                /\ stack'[t][Len(stack'[t])].tracer = None
                /\ stack'[t][Len(stack'[t])].tok = NoToken
                /\ last'.setTo = <<>> /\ last'.startedOn = None
                /\ UNCHANGED <<slot, selfToken, used, started, completed>>
          /\ DisabledExit(t) =>
                /\ last'.got = <<>> /\ last'.completedOn = None
                /\ last'.resetTok = NoToken
                /\ UNCHANGED <<slot, selfToken, used, started, completed>>]_vars

\* A capture entered and exited with the flag false inside a capture that
\* holds a tracer, on an object that still carries an earlier token: the
\* ambient tracer is untouched and has no completion.
NoOpWhenDisabledWitness ==
    /\ last.op = "exit"
    /\ ~last.en
    /\ ~last.frame.en
    /\ last.heldBefore # NoToken
    /\ slot[last.th] # None
    /\ slot[last.th] = last.frame.pre
    /\ completed[slot[last.th]] = 0

\* C6. Isolation across logical threads: a thread's ambient tracer was
\* created by a capture on that thread, and a step of one thread (its
\* entry's set, its exit's reset) leaves every other thread's slot as it was.
Isolation ==
    [][\A t \in Threads :
          /\ slot'[t] # None => slot'[t].th = t
          /\ stack'[t] = stack[t] => slot'[t] = slot[t]]_vars

\* Both threads are inside a capture, each with its own tracer ambient.
IsolationWitness ==
    /\ slot["A"] # None /\ slot["A"].th = "A"
    /\ slot["B"] # None /\ slot["B"].th = "B"
    /\ stack["A"] # <<>> /\ stack["B"] # <<>>

\* The tracer of the innermost active capture of thread t whose entry
\* installed one (read the flag as true); none when there is no such capture.
RECURSIVE InnermostFrom(_, _)
InnermostFrom(st, i) ==
    IF i = 0 THEN None
    ELSE IF st[i].en THEN st[i].tracer
    ELSE InnermostFrom(st, i - 1)

InnermostTracer(t) == InnermostFrom(stack[t], Len(stack[t]))

\* C7. Ambient slot invariant, the flag changing at any time: the slot of a
\* thread holds the tracer of its innermost active capture, and none when no
\* capture is active on the thread.
AmbientSlotInvariant ==
    \A t \in Threads : slot[t] = InnermostTracer(t)

\* C8. Token discipline: the token an exit passes to reset_current_tracer is
\* the one its own entry created, it has not been consumed before, and its
\* saved value is the slot's value before that entry (reverse order).
TokenDiscipline ==
    (last.op = "exit" /\ last.resetTok # NoToken) =>
        /\ last.resetTok = last.frame.tok
        /\ ~last.staleReset
        /\ last.resetTok.old = last.frame.pre

\* C9. Exclusive tracer ownership: the tracer an exit records completion on
\* is the tracer its own capture created.
ExclusiveOwnership ==
    (last.op = "exit" /\ last.completedOn # None) =>
        last.completedOn = last.frame.tracer

\* C10, as claimed. Absent-tracer entry: with the flag true and a factory
\* that yields none, the entry makes no set call, retains no token, leaves
\* the slot as it was and records nothing.
AbsentTracerSkipsInstall ==
    (last.op = "enter" /\ last.en /\ last.created = None) =>
        /\ last.setTo = <<>>
        /\ last.newTok = NoToken
        /\ selfToken[last.frame.obj] = last.heldBefore
        /\ slot[last.th] = last.before
        /\ last.startedOn = None

\* C10, amended. Absent-tracer entry: with the flag true and a factory that
\* yields none, the entry still calls set_current_tracer, with none, and
\* retains the returned token, which saves the slot's prior value; the slot
\* is none after the entry, and no recording call occurs.
AbsentTracerInstallsNone ==
    (last.op = "enter" /\ last.en /\ last.created = None) =>
        /\ last.setTo = <<None>>
        /\ last.newTok # NoToken
        /\ last.newTok.old = last.before
        /\ selfToken[last.frame.obj] = last.newTok
        /\ slot[last.th] = None
        /\ last.startedOn = None
        /\ \A T \in Tracers : started[T] = 0 => completed[T] = 0

\* A capture whose factory yields none is entered inside a capture holding a
\* tracer: the slot goes from that tracer to none.
AbsentTracerInstallsNoneWitness ==
    /\ last.op = "enter"
    /\ last.en
    /\ last.created = None
    /\ last.before # None
    /\ slot[last.th] = None
    /\ selfToken[last.frame.obj].old = last.before

\* C11. Exit bookkeeping on every termination mode (flag true throughout):
\* every tracer that recorded its start eventually has its completion
\* recorded; and an exit, whether the work ended normally, failed or was
\* cancelled, records completion on the capture's tracer, consumes the
\* entry's token, puts the slot back to its pre-entry value and hands the
\* outcome on unchanged, so the cancellation path does what the failure
\* path does.
ExitBookkeeping ==
    /\ [](last.op = "exit" =>
            /\ last.exc \in Outcomes
            /\ last.completedOn = last.frame.tracer
            /\ last.frame.tracer # None => completed[last.frame.tracer] = 1
            /\ last.resetTok = last.frame.tok
            /\ last.frame.tok \in used
            /\ slot[last.th] = last.frame.pre
            /\ last.observed = last.exc)
    /\ \A T \in Tracers : (started[T] = 1) ~> (completed[T] = 1)

\* A cancelled capture holding a tracer, nested in another capture, has
\* exited: completion is recorded and the enclosing tracer is ambient again.
ExitBookkeepingWitness ==
    /\ last.op = "exit"
    /\ last.exc = "cancelled"
    /\ last.frame.tracer # None
    /\ last.frame.pre # None
    /\ completed[last.frame.tracer] = 1
    /\ slot[last.th] = last.frame.pre
    /\ last.observed = "cancelled"

\* C12. update_transfer_details saves the transfer details in the session
\* state: after any sequence of calls every field recorded in the session
\* holds the value of the latest call that supplied it (a call that omits a
\* field leaves its recorded value as it was).
SessionHoldsLatest ==
    \A f \in Fields : session[f] = supplied[f]

\* C13. Independent enabled checks: an exit that reads the flag as false
\* after an entry that read it as true does nothing (no read of the ambient
\* tracer, no completion, no reset, slot as before); an entry that read the
\* flag as false created no tracer and no token, and its exit, reading the
\* flag as true, reads the ambient tracer, records completion on it when
\* there is one, and resets exactly when the object holds a token.
IndependentEnabledChecks ==
    /\ (last.op = "exit" /\ last.frame.en /\ ~last.en) =>
          /\ last.got = <<>>
          /\ last.completedOn = None
          /\ last.resetTok = NoToken
          /\ slot[last.th] = last.before
          /\ selfToken[last.frame.obj] = last.frame.tok
    /\ (last.op = "enter" /\ ~last.en) =>
          /\ last.created = None
          /\ last.newTok = NoToken
          /\ selfToken[last.frame.obj] = last.heldBefore
    /\ (last.op = "exit" /\ ~last.frame.en /\ last.en) =>
          /\ last.frame.tracer = None
          /\ last.frame.tok = NoToken
          /\ last.got = <<last.before>>
          /\ last.completedOn = last.before
          /\ last.resetTok = last.heldBefore

\* A capture entered with the flag false inside a capture holding a tracer
\* exits with the flag true: the exit records completion on the ambient
\* tracer and, holding no token, leaves the slot alone.
IndependentEnabledChecksWitness ==
    /\ last.op = "exit"
    /\ ~last.frame.en
    /\ last.en
    /\ last.completedOn # None
    /\ last.heldBefore = NoToken
    /\ slot[last.th] = last.before

\* C14. Exit step order: when an exit records completion on a tracer, that
\* tracer is the slot's value at the moment of the call (the slot is still as
\* the exit found it); the slot changes only afterwards, by the reset, to the
\* value the token saved, which is the pre-entry value when the token is the
\* one the capture's own entry retained.
ExitStepOrder ==
    (last.op = "exit" /\ last.en) =>
        /\ last.completedOn # None =>
              /\ last.atCompletion = last.completedOn
              /\ last.atCompletion = last.before
        /\ slot[last.th] # last.before =>
              /\ last.resetTok # NoToken
              /\ slot[last.th] = last.resetTok.old
        /\ (last.resetTok # NoToken /\ last.resetTok = last.frame.tok) =>
              slot[last.th] = last.frame.pre

\* A nested capture with its own tracer has exited: completion was recorded
\* while its tracer was ambient, and the slot then went back to the outer one.
ExitStepOrderWitness ==
    /\ last.op = "exit"
    /\ last.en
    /\ last.completedOn # None
    /\ last.atCompletion = last.completedOn
    /\ last.resetTok = last.frame.tok
    /\ last.frame.pre # None
    /\ slot[last.th] = last.frame.pre
    /\ slot[last.th] # last.completedOn

\* C15. Absent-tracer nesting (flag true throughout): while a capture whose
\* factory call yielded none is innermost, the ambient tracer is none; its
\* exit records no completion and makes the enclosing capture's tracer
\* ambient again; a tracer of a capture that is still active has received no
\* completion.
AbsentTracerNesting ==
    /\ \A t \in Threads :
          /\ (stack[t] # <<>> /\ Top(t).tracer = None) => slot[t] = None
          /\ \A T \in ActiveTracers(t) : completed[T] = 0
    /\ (last.op = "exit" /\ last.frame.tracer = None) =>
          /\ last.completedOn = None
          /\ slot[last.th] = last.frame.pre
          /\ slot[last.th] = EnclosingTracer(last.th)

\* An inner capture without a tracer has exited inside an outer capture
\* holding T1: T1 is ambient again and has no completion yet.
AbsentTracerNestingWitness ==
    /\ last.op = "exit"
    /\ last.frame.tracer = None
    /\ last.before = None
    /\ stack[last.th] # <<>>
    /\ Top(last.th).tracer # None
    /\ slot[last.th] = Top(last.th).tracer
    /\ completed[slot[last.th]] = 0
    /\ started[slot[last.th]] = 1

====
